---- MODULE Spec2Model ----
(***************************************************************************)
(* Model of the Summary / Q&A / Insight Engine (src/frontend/src/App.jsx). *)
(*                                                                         *)
(* The file holds three programs that only meet over HTTP:                 *)
(*   - fetchWithRetry, the retrying request wrapper      (SpecRetry)       *)
(*     and separate calls of it in progress together     (SpecCalls)       *)
(*   - the POST /api/summarize handler of the proxy      (SpecServer)      *)
(*   - the App component: file selection, queryDocument,                   *)
(*     the history subscription and the suggestion list  (SpecApp, SpecUI) *)
(***************************************************************************)
EXTENDS Integers, Sequences, FiniteSets, Bags

VARIABLES
    \* ---- fetchWithRetry (one call) ----
    rpc,          \* position of the call: idle, fetch, delay, text, returned, thrown
    maxRetries,   \* the maxRetries argument
    i,            \* the loop variable
    response,     \* the response of the current attempt (NoResponse before)
    thrown,       \* the error the call was rejected with (NoError before)
    returned,     \* the value the call resolved with
    attemptLog,   \* outcome of every fetch() made by the call, in order
    attempts,     \* number of fetch() calls issued
    delays,       \* the delay of every setTimeout started by the call, in order
    \* ---- POST /api/summarize (one request) ----
    hpc,              \* position of the handler: idle, upstream, done, rejected
    reqBody,          \* req.body: documentText, question, responseFormat
    textToProcess,
    systemPrompt,
    userQuery,        \* the pieces of the template literal, in order
    generationConfig,
    upstreamCalls,    \* number of ai.models.generateContent invocations
    responses,        \* the responses sent for the request, in order
    \* ---- the App component ----
    pdfText,
    question,
    summary,
    loading,
    error,
    userId,
    db,
    history,
    store,        \* the user's history collection, newest entry first
    calls,        \* the bag of queryDocument calls in progress, each awaiting
                  \* fetchWithRetry (at "fetch") or response.json() (at "json")
    lastSettled,  \* how the queryDocument call that completed last ended
    addDocCalls,  \* number of addDoc invocations
    extracting,   \* the files whose extraction (handleFileChange) is in progress
    events,       \* number of user and store events so far: form submissions,
                  \* file selections, entries added by other sessions
    \* ---- extractTextFromPDF (one call) ----
    xpc,          \* position of the call: idle, arrayBuffer, loadingTask, getPage,
                  \* getTextContent, returned, thrown
    pdf,          \* the pages of the document, each the list of its text items
    pageIndex,    \* the loop variable
    fullText,
    \* ---- fetchWithRetry (separate calls in progress together) ----
    invocation    \* for each call, its own locals (maxRetries, i, response), its
                  \* position, what it resolved with, and the number of fetch()
                  \* calls and setTimeout waits it has made

retryVars == <<rpc, maxRetries, i, response, thrown, returned, attemptLog, attempts, delays>>

serverVars == <<hpc, reqBody, textToProcess, systemPrompt, userQuery, generationConfig,
                upstreamCalls, responses>>

appVars == <<pdfText, question, summary, loading, error, userId, db, history, store,
             calls, lastSettled, addDocCalls, extracting, events>>

extractVars == <<xpc, pdf, pageIndex, fullText>>

callVars == <<invocation>>

vars == <<retryVars, serverVars, appVars, extractVars, callVars>>

(***************************************************************************)
(* JavaScript strings.  A string is a sequence of runs [c, n]: n >= 1      *)
(* copies of the character c, adjacent runs holding different characters.  *)
(***************************************************************************)
Run(c, n) == [c |-> c, n |-> n]

RECURSIVE StrLen(_)
StrLen(s) == IF s = <<>> THEN 0 ELSE Head(s).n + StrLen(Tail(s))

\* the characters String.prototype.trim strips: WhiteSpace and
\* LineTerminator of ECMAScript.  A character that cannot be written in a
\* string of this module is denoted by its code point.
WhiteSpaceChars ==
    {" ", "\t", "\n", "\r", "\f", "U+000B", "U+00A0", "U+1680", "U+2000", "U+2001",
     "U+2002", "U+2003", "U+2004", "U+2005", "U+2006", "U+2007", "U+2008", "U+2009",
     "U+200A", "U+2028", "U+2029", "U+202F", "U+205F", "U+3000", "U+FEFF"}

IsWhiteSpace(c) == c \in WhiteSpaceChars

RECURSIVE TrimStart(_)
TrimStart(s) ==
    IF s = <<>> THEN <<>>
    ELSE IF IsWhiteSpace(Head(s).c) THEN TrimStart(Tail(s)) ELSE s

RECURSIVE TrimEnd(_)
TrimEnd(s) ==
    IF s = <<>> THEN <<>>
    ELSE IF IsWhiteSpace(s[Len(s)].c) THEN TrimEnd(SubSeq(s, 1, Len(s) - 1)) ELSE s

Trim(s) == TrimEnd(TrimStart(s))

\* a + b
Concat(a, b) ==
    IF a = <<>> THEN b
    ELSE IF b = <<>> THEN a
    ELSE IF a[Len(a)].c = b[1].c
         THEN SubSeq(a, 1, Len(a) - 1) \o <<Run(b[1].c, a[Len(a)].n + b[1].n)>> \o Tail(b)
         ELSE a \o b

\* the string literal made of the given characters
RECURSIVE Lit(_)
Lit(chars) ==
    IF chars = <<>> THEN <<>>
    ELSE Concat(Lit(SubSeq(chars, 1, Len(chars) - 1)), <<Run(chars[Len(chars)], 1)>>)

RECURSIVE ConcatAll(_)
ConcatAll(parts) == IF parts = <<>> THEN <<>> ELSE Concat(Head(parts), ConcatAll(Tail(parts)))

(***************************************************************************)
(* JavaScript values as they arrive in a JSON body: t is the type, s the   *)
(* characters of a string (for other types: of its String() rendering),    *)
(* n the number, the truth value (0/1) or the length of an array.          *)
(***************************************************************************)
JsUndefined == [t |-> "undefined", n |-> 0, s |-> Lit(<<"u", "n", "d", "e", "f", "i", "n", "e", "d">>)]

JsNull == [t |-> "null", n |-> 0, s |-> Lit(<<"n", "u", "l", "l">>)]

JsString(str) == [t |-> "string", n |-> 0, s |-> str]

JsZero == [t |-> "number", n |-> 0, s |-> Lit(<<"0">>)]

JsFive == [t |-> "number", n |-> 5, s |-> Lit(<<"5">>)]

\* an array of n empty strings; String() joins the elements with ","
JsArrayOfEmpty(n) == [t |-> "array", n |-> n, s |-> IF n > 1 THEN <<Run(",", n - 1)>> ELSE <<>>]

\* Boolean(v)
Truthy(v) ==
    CASE v.t \in {"undefined", "null"} -> FALSE
      [] v.t = "string" -> v.s # <<>>
      [] v.t \in {"number", "boolean"} -> v.n # 0
      [] OTHER -> TRUE

\* a || b
Or(a, b) == IF Truthy(a) THEN a ELSE b

\* v.length > k  (undefined > k is false)
LengthExceeds(v, k) ==
    CASE v.t = "string" -> StrLen(v.s) > k
      [] v.t = "array" -> v.n > k
      [] OTHER -> FALSE

\* typeof v.trim === 'function'
HasTrim(v) == v.t = "string"

\* `${v}`
TemplateString(v) == v.s

(***************************************************************************)
(* fetchWithRetry                                                          *)
(***************************************************************************)
DefaultMaxRetries == 5

MaxRetriesBound == 5

JitterSamples == {0, 999}

Statuses == {200, 429, 500, 400}

NoResponse == [t |-> "none", status |-> 0]

HttpResponse(st) == [t |-> "response", status |-> st]

Rejected == [t |-> "reject", status |-> 0]

FetchOutcomes == {HttpResponse(st) : st \in Statuses} \cup {Rejected}

ResponseOkAny(r) == r.t = "response"

\* response.ok
ResponseOk(r) == r.t = "response" /\ r.status >= 200 /\ r.status <= 299

NoError == [kind |-> "none", at |-> 0, status |-> 0]

TransportError(k) == [kind |-> "transport", at |-> k, status |-> 0]

BodyReadError(k) == [kind |-> "body", at |-> k, status |-> 0]

ApiCallFailed(k, st) == [kind |-> "api", at |-> k, status |-> st]

Undefined == [t |-> "undefined", status |-> 0]

RECURSIVE Pow2(_)
Pow2(n) == IF n = 0 THEN 1 ELSE 2 * Pow2(n - 1)

BackoffDelayLinear(attempt, jitter) == (attempt + 1) * 1000 + jitter

\* Math.pow(2, i) * 1000 + Math.random() * 1000, in whole milliseconds
BackoffDelay(attempt, jitter) == Pow2(attempt) * 1000 + jitter

ShouldBackoffOffByOne(r, attempt, max) == r.status = 429 /\ attempt < max - 2

ShouldBackoff(r, attempt, max) == r.status = 429 /\ attempt < max - 1

IsLastAttempt(attempt, max) == attempt = max - 1

\* fetchWithRetry(url, options, maxRetries): entry, up to the first await
Call(m) ==
    /\ rpc = "idle"
    /\ UNCHANGED <<serverVars, appVars, extractVars, callVars>>
    /\ maxRetries' = m
    /\ i' = 0
    /\ IF 0 < m
       THEN /\ rpc' = "fetch"
            /\ attempts' = 1
            /\ returned' = returned
       ELSE /\ rpc' = "returned"
            /\ attempts' = 0
            /\ returned' = Undefined
    /\ UNCHANGED <<response, thrown, attemptLog, delays>>

CatchSynthesized(e) ==
    IF IsLastAttempt(i, maxRetries)
    THEN /\ rpc' = "thrown"
         /\ thrown' = [kind |-> "exhausted", at |-> i, status |-> 0]
         /\ UNCHANGED <<i, attempts>>
    ELSE /\ rpc' = "fetch"
         /\ i' = i + 1
         /\ attempts' = attempts + 1
         /\ UNCHANGED thrown

\* the catch block: rethrow on the last iteration, else log and loop
Catch(e) ==
    IF IsLastAttempt(i, maxRetries)
    THEN /\ rpc' = "thrown"
         /\ thrown' = e
         /\ UNCHANGED <<i, attempts>>
    ELSE /\ rpc' = "fetch"
         /\ i' = i + 1
         /\ attempts' = attempts + 1
         /\ UNCHANGED thrown

\* await fetch(url, options) settles
FetchSettled(out, jitter) ==
    /\ rpc = "fetch"
    /\ UNCHANGED <<serverVars, appVars, extractVars, callVars>>
    /\ attemptLog' = Append(attemptLog, out)
    /\ IF out.t = "reject"
       THEN /\ Catch(TransportError(i))
            /\ UNCHANGED <<response, returned, delays>>
       ELSE /\ response' = out
            /\ IF ShouldBackoff(out, i, maxRetries)
               THEN /\ rpc' = "delay"
                    /\ delays' = Append(delays, BackoffDelay(i, jitter))
                    /\ UNCHANGED <<i, attempts, thrown, returned>>
               ELSE IF ~ResponseOk(out)
               THEN /\ rpc' = "text"
                    /\ UNCHANGED <<i, attempts, thrown, returned, delays>>
               ELSE /\ rpc' = "returned"
                    /\ returned' = out
                    /\ UNCHANGED <<i, attempts, thrown, delays>>
    /\ UNCHANGED maxRetries

\* the setTimeout of the backoff fires: continue with the next iteration
TimerFired ==
    /\ rpc = "delay"
    /\ UNCHANGED <<serverVars, appVars, extractVars, callVars>>
    /\ rpc' = "fetch"
    /\ i' = i + 1
    /\ attempts' = attempts + 1
    /\ UNCHANGED <<maxRetries, response, thrown, returned, attemptLog, delays>>

\* await response.text() settles, then the Error is thrown inside the try block
TextSettled(ok) ==
    /\ rpc = "text"
    /\ UNCHANGED <<serverVars, appVars, extractVars, callVars>>
    /\ Catch(IF ok THEN ApiCallFailed(i, response.status) ELSE BodyReadError(i))
    /\ UNCHANGED <<maxRetries, response, returned, attemptLog, delays>>

RetryInit ==
    /\ rpc = "idle"
    /\ maxRetries = DefaultMaxRetries
    /\ i = 0
    /\ response = NoResponse
    /\ thrown = NoError
    /\ returned = NoResponse
    /\ attemptLog = <<>>
    /\ attempts = 0
    /\ delays = <<>>

(***************************************************************************)
(* Separate fetchWithRetry calls in progress together.  Every invocation   *)
(* of the async function has its own maxRetries, i and response; the       *)
(* function reads and writes nothing outside them.  Calls interleave at    *)
(* their awaits.                                                           *)
(***************************************************************************)
CallIds == {1, 2}

\* the locals of an invocation that has not started
NotCalled ==
    [pc |-> "idle", maxRetries |-> DefaultMaxRetries, i |-> 0, response |-> NoResponse,
     returned |-> NoResponse, attempts |-> 0, waits |-> 0]

\* `continue`, or the end of the catch block: i++ and, as i < maxRetries, the
\* next fetch(); `const response` of the new iteration is not yet bound
NextIteration(l) ==
    [l EXCEPT !.pc = "fetch", !.i = @ + 1, !.attempts = @ + 1, !.response = NoResponse]

\* the catch block: rethrow on the last iteration, else log and loop
Caught(l) ==
    IF IsLastAttempt(l.i, l.maxRetries) THEN [l EXCEPT !.pc = "thrown"]
    ELSE NextIteration(l)

\* the body of the try block once fetch() has settled with `out`
Attempted(l, out) ==
    IF out.t = "reject" THEN Caught(l)
    ELSE IF ShouldBackoff(out, l.i, l.maxRetries)
    THEN [l EXCEPT !.pc = "delay", !.response = out, !.waits = @ + 1]
    ELSE IF ~ResponseOk(out)
    THEN [l EXCEPT !.pc = "text", !.response = out]
    ELSE [l EXCEPT !.pc = "returned", !.response = out, !.returned = out]

\* call c: fetchWithRetry(url, options, m), up to the first await
CallOf(c, m) ==
    /\ invocation[c].pc = "idle"
    /\ invocation' =
         [invocation EXCEPT ![c] =
            IF 0 < m
            THEN [@ EXCEPT !.pc = "fetch", !.maxRetries = m, !.i = 0, !.attempts = 1]
            ELSE [@ EXCEPT !.pc = "returned", !.maxRetries = m, !.returned = Undefined]]
    /\ UNCHANGED <<retryVars, serverVars, appVars, extractVars>>

\* call c: await fetch(url, options) settles
FetchSettledOf(c, out) ==
    /\ invocation[c].pc = "fetch"
    /\ invocation' = [invocation EXCEPT ![c] = Attempted(@, out)]
    /\ UNCHANGED <<retryVars, serverVars, appVars, extractVars>>

\* call c: the setTimeout of the backoff fires
TimerFiredOf(c) ==
    /\ invocation[c].pc = "delay"
    /\ invocation' = [invocation EXCEPT ![c] = NextIteration(@)]
    /\ UNCHANGED <<retryVars, serverVars, appVars, extractVars>>

\* call c: await response.text() settles (resolved or rejected); either way
\* an Error is thrown inside the try block
TextSettledOf(c) ==
    /\ invocation[c].pc = "text"
    /\ invocation' = [invocation EXCEPT ![c] = Caught(@)]
    /\ UNCHANGED <<retryVars, serverVars, appVars, extractVars>>

CallsInit == invocation = [c \in CallIds |-> NotCalled]

(***************************************************************************)
(* POST /api/summarize                                                     *)
(***************************************************************************)
MAX_CONTEXT_LENGTH == 100000

MaxContextChars == MAX_CONTEXT_LENGTH * 4

TooLongMessage == "Document is too long. Please implement chunking on the backend."

EmptyResponseMessage == "Gemini API returned an unexpected empty response."

InternalErrorMessage == "Internal server error during AI processing."

\* A system instruction is the sequence of its pieces, in order; a character
\* that cannot be written in a string is a piece of its own, named by its code
\* point ("U+0060" is the backtick).
\* the template literal of the json mode, line breaks and indentation included
ExtractionInstruction ==
    <<"You are a Data Extraction Engine. Analyze the provided document text and output strictly valid JSON. \n",
      "        Do not include Markdown formatting (like ",
      "U+0060",
      "U+0060",
      "U+0060",
      "json). \n",
      "        Extract the following fields:\n",
      "        - \"key_metrics\": A list of numerical data points, dates, or financial figures found.\n",
      "        - \"action_items\": A list of clear next steps or requirements.\n",
      "        - \"sentiment\": One word (Positive, Neutral, or Negative).\n",
      "        - \"summary\": A concise 2-sentence summary of the content.\n",
      "        \n",
      "        If specific data is missing, use empty arrays or \"N/A\".">>

GroundedInstruction ==
    <<"You are a specialized Document Insight Engine. Answer the user's QUESTION based ONLY on the provided DOCUMENT CONTENT. Use Markdown formatting.">>

GeneralInstruction ==
    <<"You are a helpful AI assistant. Answer the user's question clearly and concisely using Markdown formatting.">>

\* `let systemPrompt;`: no instruction is assigned before the mode selection
NoInstruction == <<>>

DocumentOpen ==
    Lit(<<"D", "O", "C", "U", "M", "E", "N", "T", " ", "C", "O", "N", "T",
          "E", "N", "T", ":", "\n", "\n", "-", "-", "-", "\n">>)

FocusAreaLabel ==
    Lit(<<"\n", "-", "-", "-", "\n", "\n", "C", "o", "n", "t", "e", "x", "t",
          "/", "F", "o", "c", "u", "s", " ", "A", "r", "e", "a", " ", "(",
          "O", "p", "t", "i", "o", "n", "a", "l", ")", ":", " ">>)

DocumentCloseQuestion ==
    Lit(<<"\n", "-", "-", "-", "\n", "\n", "U", "S", "E", "R", " ", "Q", "U",
          "E", "S", "T", "I", "O", "N", ":", " ">>)

UserQuestionLabel ==
    Lit(<<"U", "S", "E", "R", " ", "Q", "U", "E", "S", "T", "I", "O", "N",
          ":", " ">>)

JsonBody(kind, text, msg) == [kind |-> kind, summary |-> text, error |-> msg]

SummaryBody(text) == JsonBody("summary", text, "")

ErrorBody(msg) == JsonBody("error", <<>>, msg)

\* the page express answers with when a handler's promise rejects
HtmlErrorPage == JsonBody("html", <<>>, "")

Reply(status, body) == [status |-> status, body |-> body]

NoBody == [documentText |-> JsUndefined, question |-> JsUndefined, responseFormat |-> JsUndefined]

LongDocLengths == {MaxContextChars - 1, MaxContextChars, MaxContextChars + 1}

DocumentTexts ==
    {JsUndefined, JsNull, JsZero, JsFive, JsArrayOfEmpty(1),
     JsString(<<>>), JsString(Lit(<<" ">>)), JsString(Lit(<<"d", "o", "c">>)),
     JsString(Lit(<<"\r", "\n">>)), JsString(Lit(<<"U+00A0", "\f">>))}
    \cup {JsString(<<Run("a", n)>>) : n \in LongDocLengths}
    \cup {JsString(<<Run(" ", n)>>) : n \in LongDocLengths}
    \cup {JsArrayOfEmpty(n) : n \in LongDocLengths}

Questions ==
    {JsUndefined, JsNull, JsFive, JsString(<<>>), JsString(Lit(<<" ">>)),
     JsString(Lit(<<"q", "?">>))}

ResponseFormats ==
    {JsUndefined, JsString(Lit(<<"t", "e", "x", "t">>)), JsString(Lit(<<"j", "s", "o", "n">>))}

RequestBodies ==
    [documentText : DocumentTexts, question : Questions, responseFormat : ResponseFormats]

\* what `await ai.models.generateContent(payload)` settles with
UpstreamOutcomes ==
    {[t |-> "text", s |-> Lit(<<"o", "k">>)],
     [t |-> "text", s |-> <<>>],
     [t |-> "noCandidate", s |-> <<>>],
     [t |-> "throws", s |-> <<>>]}

\* what express does with the rejected promise of an async handler:
\* version 4 leaves the request unanswered, version 5 sends its error page
ExpressVersions == {4, 5}

IsJsonMode(body) == body.responseFormat = JsString(Lit(<<"j", "s", "o", "n">>))

GuardRejectsAtLimit(text) == LengthExceeds(text, MaxContextChars - 1)

GuardRejects(text) == LengthExceeds(text, MaxContextChars)

\* the mode selection: throws (TypeError) when .trim is not a function
ModeThrows(body, text) == ~IsJsonMode(body) /\ ~HasTrim(text)

HasDocumentUntrimmed(text) == StrLen(text.s) > 0

\* textToProcess.trim().length > 0
HasDocument(text) == StrLen(Trim(text.s)) > 0

ComposeSystemPrompt(body, text) ==
    IF IsJsonMode(body) THEN ExtractionInstruction
    ELSE IF HasDocument(text) THEN GroundedInstruction
    ELSE GeneralInstruction

ComposeUserQuery(body, text) ==
    IF IsJsonMode(body)
    THEN <<DocumentOpen, TemplateString(text), FocusAreaLabel, TemplateString(body.question)>>
    ELSE IF HasDocument(text)
    THEN <<DocumentOpen, TemplateString(text), DocumentCloseQuestion, TemplateString(body.question)>>
    ELSE <<UserQuestionLabel, TemplateString(body.question)>>

ComposeGenerationConfig(body) == IF IsJsonMode(body) THEN "application/json" ELSE ""

\* the handler, from the arrival of the request up to its first await
Receive(body, express) ==
    /\ hpc = "idle"
    /\ reqBody' = body
    /\ LET text == Or(body.documentText, JsString(<<>>)) IN
       /\ textToProcess' = text
       /\ IF GuardRejects(text)
          THEN /\ hpc' = "done"
               /\ responses' = Append(responses, Reply(400, ErrorBody(TooLongMessage)))
               /\ UNCHANGED <<systemPrompt, userQuery, generationConfig, upstreamCalls>>
          ELSE IF ModeThrows(body, text)
          THEN /\ hpc' = "rejected"
               /\ responses' = IF express = 4 THEN responses
                                ELSE Append(responses, Reply(500, HtmlErrorPage))
               /\ UNCHANGED <<systemPrompt, userQuery, generationConfig, upstreamCalls>>
          ELSE /\ hpc' = "upstream"
               /\ systemPrompt' = ComposeSystemPrompt(body, text)
               /\ userQuery' = ComposeUserQuery(body, text)
               /\ generationConfig' = ComposeGenerationConfig(body)
               /\ upstreamCalls' = upstreamCalls + 1
               /\ UNCHANGED responses
    /\ UNCHANGED <<retryVars, appVars, extractVars, callVars>>

\* the handler after `await ai.models.generateContent(payload)`
UpstreamSettled(out) ==
    /\ hpc = "upstream"
    /\ hpc' = "done"
    /\ responses' =
         Append(responses,
                IF out.t = "throws" THEN Reply(500, ErrorBody(InternalErrorMessage))
                ELSE IF out.t = "text" /\ out.s # <<>> THEN Reply(200, SummaryBody(out.s))
                ELSE Reply(500, ErrorBody(EmptyResponseMessage)))
    /\ UNCHANGED <<reqBody, textToProcess, systemPrompt, userQuery, generationConfig, upstreamCalls>>
    /\ UNCHANGED <<retryVars, appVars, extractVars, callVars>>

ServerInit ==
    /\ hpc = "idle"
    /\ reqBody = NoBody
    /\ textToProcess = JsString(<<>>)
    /\ systemPrompt = NoInstruction
    /\ userQuery = <<>>
    /\ generationConfig = ""
    /\ upstreamCalls = 0
    /\ responses = <<>>

NextServer ==
    \/ \E body \in RequestBodies, express \in ExpressVersions : Receive(body, express)
    \/ \E out \in UpstreamOutcomes : UpstreamSettled(out)

(***************************************************************************)
(* The App component                                                       *)
(***************************************************************************)
\* form submissions, file selections and entries of other sessions in one
\* behaviour
MaxEvents == 3

ValidationMessage == "Please upload a PDF, paste text, or ask a question."

ExtractionFailedMessage == "Failed to extract text. Is this a scanned PDF?"

BackendEmptyMessage == "Backend response was empty."

ConnectFailedMessage == "Failed to connect to backend (Port 3001)."

\* error === null
NoErrorMessage == ""

\* summary === null
NoSummary == [set |-> FALSE, content |-> <<>>]

SummaryOf(text) == [set |-> TRUE, content |-> text]

ExtractingPlaceholder ==
    Lit(<<"E", "x", "t", "r", "a", "c", "t", "i", "n", "g", " ", "t", "e",
          "x", "t", " ", "f", "r", "o", "m", " ", "P", "D", "F", ".", ".",
          ".", " ", "p", "l", "e", "a", "s", "e", " ", "w", "a", "i", "t", ".">>)

InsightLabel == Lit(<<"I", "n", "s", "i", "g", "h", "t">>)

DigitChars == <<"0", "1", "2", "3", "4", "5", "6", "7", "8", "9">>

\* `${k}` for a page number
RECURSIVE Decimal(_)
Decimal(k) ==
    IF k < 10 THEN <<Run(DigitChars[k + 1], 1)>>
    ELSE Concat(Decimal(k \div 10), <<Run(DigitChars[(k % 10) + 1], 1)>>)

\* textContent.items.map((item) => item.str).join(' ')
RECURSIVE JoinItems(_)
JoinItems(items) ==
    IF items = <<>> THEN <<>>
    ELSE IF Len(items) = 1 THEN items[1]
    ELSE Concat(items[1], Concat(Lit(<<" ">>), JoinItems(Tail(items))))

PageMarkerZeroBased(k) ==
    ConcatAll(<<Lit(<<"\n", "-", "-", "-", " ", "P", "a", "g", "e", " ">>), Decimal(k - 1),
                Lit(<<" ", "-", "-", "-", "\n">>)>>)

\* `\n--- Page ${i} ---\n`
PageMarker(k) ==
    ConcatAll(<<Lit(<<"\n", "-", "-", "-", " ", "P", "a", "g", "e", " ">>), Decimal(k),
                Lit(<<" ", "-", "-", "-", "\n">>)>>)

\* the loop of extractTextFromPDF over pages k..numPages
RECURSIVE ExtractFrom(_, _)
ExtractFrom(pages, k) ==
    IF k > Len(pages) THEN <<>>
    ELSE Concat(Concat(PageMarker(k), JoinItems(pages[k])), ExtractFrom(pages, k + 1))

extractTextFromPDF(pages) == ExtractFrom(pages, 1)

\* the pages a document is made of, and the documents of up to MaxPages pages
MaxPages == 3

PageContents ==
    {<<>>, <<Lit(<<"a">>)>>, <<Lit(<<"a">>), Lit(<<"b", " ", "c">>)>>, <<<<>>, <<>>>>}

Documents == UNION {[1..n -> PageContents] : n \in 0..MaxPages}

\* extractTextFromPDF(file) up to `await file.arrayBuffer()`
ExtractCall(pages) ==
    /\ xpc = "idle"
    /\ xpc' = "arrayBuffer"
    /\ pdf' = pages
    /\ UNCHANGED <<pageIndex, fullText>>
    /\ UNCHANGED <<retryVars, serverVars, appVars, callVars>>

\* the loop test `i <= pdf.numPages` and what follows it
LoopFrom(k) ==
    /\ pageIndex' = k
    /\ xpc' = IF k <= Len(pdf) THEN "getPage" ELSE "returned"

\* file.arrayBuffer() settles; on success pdfjsLib.getDocument is called,
\* which may throw
ArrayBufferSettled(ok) ==
    /\ xpc = "arrayBuffer"
    /\ xpc' = IF ok THEN "loadingTask" ELSE "thrown"
    /\ UNCHANGED <<pdf, pageIndex, fullText>>
    /\ UNCHANGED <<retryVars, serverVars, appVars, callVars>>

\* loadingTask.promise settles
DocumentOpened(ok) ==
    /\ xpc = "loadingTask"
    /\ IF ok
       THEN /\ fullText' = <<>>
            /\ LoopFrom(1)
       ELSE /\ xpc' = "thrown"
            /\ UNCHANGED <<pageIndex, fullText>>
    /\ UNCHANGED pdf
    /\ UNCHANGED <<retryVars, serverVars, appVars, callVars>>

\* pdf.getPage(i) settles
GetPageSettled(ok) ==
    /\ xpc = "getPage"
    /\ xpc' = IF ok THEN "getTextContent" ELSE "thrown"
    /\ UNCHANGED <<pdf, pageIndex, fullText>>
    /\ UNCHANGED <<retryVars, serverVars, appVars, callVars>>

\* page.getTextContent() settles: the rest of the loop body and `i++`
GetTextContentSettled(ok) ==
    /\ xpc = "getTextContent"
    /\ IF ok
       THEN /\ fullText' = Concat(fullText, Concat(PageMarker(pageIndex), JoinItems(pdf[pageIndex])))
            /\ LoopFrom(pageIndex + 1)
       ELSE /\ xpc' = "thrown"
            /\ UNCHANGED <<pageIndex, fullText>>
    /\ UNCHANGED pdf
    /\ UNCHANGED <<retryVars, serverVars, appVars, callVars>>

ExtractInit ==
    /\ xpc = "idle"
    /\ pdf = <<>>
    /\ pageIndex = 0
    /\ fullText = <<>>

NextExtract ==
    \/ \E pages \in Documents : ExtractCall(pages)
    \/ \E ok \in BOOLEAN : ArrayBufferSettled(ok)
    \/ \E ok \in BOOLEAN : DocumentOpened(ok)
    \/ \E ok \in BOOLEAN : GetPageSettled(ok)
    \/ \E ok \in BOOLEAN : GetTextContentSettled(ok)

\* the pages (each a list of text items) of the documents the user can choose
AppFiles == {<<<<Lit(<<"h", "i">>), Lit(<<"a">>)>>>>}

TypedTexts == {<<>>, Lit(<<"\r", "\n">>)}

TypedQuestions == {<<>>, Lit(<<" ">>), Lit(<<"q", "?">>)}

\* the question field of the entries other sessions wrote
ForeignQuestions == {JsString(<<>>), JsString(Lit(<<" ">>))}

HistoryEntry(q, a) == [question |-> q, answer |-> a]

\* what `await response.json()` gives queryDocument: it rejects (the body
\* is no JSON), or it resolves with a JSON object
ResultOutcomes ==
    {[t |-> "invalid", summary |-> <<>>, error |-> ""],
     [t |-> "json", summary |-> Lit(<<"o", "k">>), error |-> ""],
     [t |-> "json", summary |-> <<>>, error |-> InternalErrorMessage],
     [t |-> "json", summary |-> <<>>, error |-> ""]}

\* addDoc returns a promise that resolves or rejects, or throws when called
AddDocOutcomes == {"resolves", "rejects", "throws"}

BothBlankUntrimmed(doc, q) == doc = <<>> /\ q = <<>>

\* !pdfText.trim() && !question.trim()
BothBlank(doc, q) == Trim(doc) = <<>> /\ Trim(q) = <<>>

\* the disabled attribute of the submit button
SubmitDisabled == loading \/ BothBlank(pdfText, question)

\* a queryDocument call: the values it closes over and the await it is at
Closure(doc, q, canRecord) ==
    [documentText |-> doc, question |-> q, canRecord |-> canRecord, at |-> "fetch"]

\* the call after fetchWithRetry resolved, awaiting response.json()
AwaitingJson(call) == [call EXCEPT !.at = "json"]

\* every value pdfText can take
DocumentValues == TypedTexts \cup {ExtractingPlaceholder} \cup {extractTextFromPDF(f) : f \in AppFiles}

Closures == {Closure(doc, q, r) : doc \in DocumentValues, q \in TypedQuestions, r \in BOOLEAN}

ParsingCalls == {AwaitingJson(call) : call \in Closures}

NothingSettled == "none"

\* queryDocument up to `await fetchWithRetry(...)`
queryDocument ==
    /\ events < MaxEvents
    /\ events' = events + 1
    /\ IF BothBlank(pdfText, question)
       THEN /\ error' = ValidationMessage
            /\ UNCHANGED <<loading, summary, calls>>
       ELSE /\ loading' = TRUE
            /\ error' = NoErrorMessage
            /\ summary' = NoSummary
            /\ calls' = calls (+) SetToBag({Closure(pdfText, question, db /\ userId # "")})
    /\ UNCHANGED <<pdfText, question, userId, db, history, store, lastSettled, addDocCalls, extracting>>
    /\ UNCHANGED <<retryVars, serverVars, extractVars, callVars>>

\* the user presses the submit button: handleFormSubmit
SubmitButton ==
    /\ ~SubmitDisabled
    /\ queryDocument

\* a submit event reaches the form without the button (form.requestSubmit(),
\* a synthetic event): handleFormSubmit
SubmitEvent == queryDocument

\* `await fetchWithRetry(...)` settles: the call goes on to response.json(),
\* or fetchWithRetry threw and the catch and finally blocks run
FetchWithRetrySettled(call, ok) ==
    /\ BagIn(call, calls)
    /\ IF ok
       THEN /\ calls' = (calls (-) SetToBag({call})) (+) SetToBag({AwaitingJson(call)})
            /\ UNCHANGED <<error, loading, lastSettled>>
       ELSE /\ calls' = calls (-) SetToBag({call})
            /\ error' = ConnectFailedMessage
            /\ loading' = FALSE
            /\ lastSettled' = "failure"
    /\ UNCHANGED <<pdfText, question, summary, userId, db, history, store, addDocCalls,
                   extracting, events>>
    /\ UNCHANGED <<retryVars, serverVars, extractVars, callVars>>

\* queryDocument from the settling of response.json() on
QuerySettled(call, res, add) ==
    /\ BagIn(call, calls)
    /\ LET hasSummary == res.t = "json" /\ res.summary # <<>>
           recorded == hasSummary /\ call.canRecord
           caught == res.t = "invalid" \/ (recorded /\ add = "throws")
       IN
       /\ summary' = IF hasSummary THEN SummaryOf(res.summary) ELSE summary
       /\ error' = IF caught THEN ConnectFailedMessage
                   ELSE IF hasSummary THEN error
                   ELSE IF res.error # "" THEN res.error
                   ELSE BackendEmptyMessage
       /\ store' = IF recorded /\ add = "resolves"
                   THEN <<HistoryEntry(Or(JsString(call.question), JsString(InsightLabel)),
                                       res.summary)>> \o store
                   ELSE store
       /\ add \in (IF recorded THEN AddDocOutcomes ELSE {""})
       /\ lastSettled' = IF hasSummary THEN "summary" ELSE "failure"
       /\ addDocCalls' = IF recorded THEN addDocCalls + 1 ELSE addDocCalls
    /\ calls' = calls (-) SetToBag({call})
    /\ loading' = FALSE
    /\ UNCHANGED <<pdfText, question, userId, db, history, extracting, events>>
    /\ UNCHANGED <<retryVars, serverVars, extractVars, callVars>>

\* handleFileChange up to `await extractTextFromPDF(file)`
handleFileChange(file) ==
    /\ events < MaxEvents
    /\ events' = events + 1
    /\ summary' = NoSummary
    /\ error' = NoErrorMessage
    /\ loading' = TRUE
    /\ pdfText' = ExtractingPlaceholder
    /\ extracting' = Append(extracting, file)
    /\ UNCHANGED <<question, userId, db, history, store, calls, lastSettled, addDocCalls>>
    /\ UNCHANGED <<retryVars, serverVars, extractVars, callVars>>

\* handleFileChange from the settling of extractTextFromPDF on
ExtractionSettled(k, ok) ==
    /\ k \in 1..Len(extracting)
    /\ IF ok
       THEN /\ pdfText' = extractTextFromPDF(extracting[k])
            /\ UNCHANGED error
       ELSE /\ error' = ExtractionFailedMessage
            /\ pdfText' = <<>>
    /\ loading' = FALSE
    /\ extracting' = SubSeq(extracting, 1, k - 1) \o SubSeq(extracting, k + 1, Len(extracting))
    /\ UNCHANGED <<question, summary, userId, db, history, store, calls, lastSettled, addDocCalls, events>>
    /\ UNCHANGED <<retryVars, serverVars, extractVars, callVars>>

\* onChange of the textarea
EditText(v) ==
    /\ v # pdfText
    /\ pdfText' = v
    /\ UNCHANGED <<question, summary, loading, error, userId, db, history, store, calls,
                   lastSettled, addDocCalls, extracting, events>>
    /\ UNCHANGED <<retryVars, serverVars, extractVars, callVars>>

\* onChange of the question input
EditQuestion(v) ==
    /\ v # question
    /\ question' = v
    /\ UNCHANGED <<pdfText, summary, loading, error, userId, db, history, store, calls,
                   lastSettled, addDocCalls, extracting, events>>
    /\ UNCHANGED <<retryVars, serverVars, extractVars, callVars>>

\* the onAuthStateChanged callback with a user
AuthStateChanged(uid) ==
    /\ db
    /\ userId # uid
    /\ userId' = uid
    /\ UNCHANGED <<pdfText, question, summary, loading, error, db, history, store, calls,
                   lastSettled, addDocCalls, extracting, events>>
    /\ UNCHANGED <<retryVars, serverVars, extractVars, callVars>>

\* the onSnapshot callback of the history subscription
SnapshotReceived ==
    /\ db /\ userId # ""
    /\ history # store
    /\ history' = store
    /\ UNCHANGED <<pdfText, question, summary, loading, error, userId, db, store, calls,
                   lastSettled, addDocCalls, extracting, events>>
    /\ UNCHANGED <<retryVars, serverVars, extractVars, callVars>>

\* another session of the same user adds an entry to the collection of the
\* configured Firebase project
ForeignEntry(q) ==
    /\ db
    /\ events < MaxEvents
    /\ events' = events + 1
    /\ store' = <<HistoryEntry(q, Lit(<<"o", "k">>))>> \o store
    /\ UNCHANGED <<pdfText, question, summary, loading, error, userId, db, history, calls,
                   lastSettled, addDocCalls, extracting>>
    /\ UNCHANGED <<retryVars, serverVars, extractVars, callVars>>

\* history.map(item => item.question)
RECURSIVE MapQuestion(_)
MapQuestion(items) ==
    IF items = <<>> THEN <<>> ELSE <<Head(items).question>> \o MapQuestion(Tail(items))

\* .filter(Boolean)
FilterBoolean(values) == SelectSeq(values, Truthy)

\* [...new Set(values)]
RECURSIVE SpreadSet(_)
SpreadSet(values) ==
    IF values = <<>> THEN <<>>
    ELSE LET init == SpreadSet(SubSeq(values, 1, Len(values) - 1))
             last == values[Len(values)]
         IN IF \E k \in 1..Len(init) : init[k] = last THEN init ELSE Append(init, last)

uniqueQuestions == SpreadSet(FilterBoolean(MapQuestion(history)))

AppInit ==
    /\ pdfText = <<>>
    /\ question = <<>>
    /\ summary = NoSummary
    /\ loading = FALSE
    /\ error = NoErrorMessage
    /\ userId = ""
    /\ db \in BOOLEAN
    /\ history = <<>>
    /\ store = <<>>
    /\ calls = EmptyBag
    /\ lastSettled = NothingSettled
    /\ addDocCalls = 0
    /\ extracting = <<>>
    /\ events = 0

NextUI ==
    \/ SubmitButton
    \/ \E call \in Closures, ok \in BOOLEAN : FetchWithRetrySettled(call, ok)
    \/ \E call \in ParsingCalls, res \in ResultOutcomes, add \in AddDocOutcomes \cup {""} :
          QuerySettled(call, res, add)
    \/ \E file \in AppFiles : handleFileChange(file)
    \/ \E k \in 1..MaxEvents, ok \in BOOLEAN : ExtractionSettled(k, ok)
    \/ \E v \in TypedTexts : EditText(v)
    \/ \E v \in TypedQuestions : EditQuestion(v)
    \/ AuthStateChanged("uid")
    \/ SnapshotReceived
    \/ \E q \in ForeignQuestions : ForeignEntry(q)

NextApp ==
    \/ NextUI
    \/ SubmitEvent

Init == RetryInit /\ ServerInit /\ AppInit /\ ExtractInit /\ CallsInit

NextRetry ==
    \/ \E m \in 0..MaxRetriesBound : Call(m)
    \/ \E out \in FetchOutcomes, jitter \in JitterSamples : FetchSettled(out, jitter)
    \/ TimerFired
    \/ \E ok \in BOOLEAN : TextSettled(ok)

SpecRetry == Init /\ [][NextRetry]_vars

NextCalls ==
    \/ \E c \in CallIds, m \in 0..MaxRetriesBound : CallOf(c, m)
    \/ \E c \in CallIds, out \in FetchOutcomes : FetchSettledOf(c, out)
    \/ \E c \in CallIds : TimerFiredOf(c)
    \/ \E c \in CallIds : TextSettledOf(c)

\* every fetch() and every backoff timer of every call completes; nothing
\* makes a pending response.text() settle
SpecCalls ==
    /\ Init
    /\ [][NextCalls]_vars
    /\ \A c \in CallIds :
          /\ WF_vars(\E out \in FetchOutcomes : FetchSettledOf(c, out))
          /\ WF_vars(TimerFiredOf(c))

SpecServer == Init /\ [][NextServer]_vars

SpecUI == Init /\ [][NextUI]_vars

SpecApp == Init /\ [][NextApp]_vars

SpecExtract == Init /\ [][NextExtract]_vars

(***************************************************************************)
(* Properties of fetchWithRetry                                            *)
(***************************************************************************)
IsFailureStatus(out) == out.t = "response" /\ ~ResponseOk(out) /\ out.status # 429

RateLimitedUpTo(k) == \A j \in 1..k : attemptLog[j] = HttpResponse(429)

AllRejected == \A j \in 1..Len(attemptLog) : attemptLog[j].t = "reject"

\* C1: a response with a non-success status other than 429 ends the call:
\* once attempt k got such a response, no further attempt is made (for
\* k = 1 exactly one attempt is made in total).
C1_FailureStatusNotRetried ==
    \A k \in 1..Len(attemptLog) :
        (maxRetries >= 1 /\ IsFailureStatus(attemptLog[k])) => attempts = k

\* C2: when the first k attempts (k < maxRetries) are answered with 429 and
\* attempt k+1 with a success response, the call returns that response after
\* exactly k+1 attempts and k backoff waits; while only 429 has been seen,
\* every 429 is followed by exactly one wait before the next attempt.
C2_RateLimitThenSuccess ==
    \A k \in 0..Len(attemptLog) :
        (k < maxRetries /\ RateLimitedUpTo(k)) =>
            /\ (Len(attemptLog) = k /\ rpc = "delay") => (attempts = k /\ Len(delays) = k)
            /\ (Len(attemptLog) = k /\ rpc = "fetch") => (attempts = k + 1 /\ Len(delays) = k)
            /\ (Len(attemptLog) = k + 1 /\ ResponseOk(attemptLog[k + 1])) =>
                   /\ rpc = "returned"
                   /\ returned = attemptLog[k + 1]
                   /\ attempts = k + 1
                   /\ Len(delays) = k

C2_Witness ==
    /\ maxRetries = 5
    /\ attemptLog = <<HttpResponse(429), HttpResponse(429), HttpResponse(429), HttpResponse(200)>>
    /\ rpc = "returned"
    /\ attempts = 4
    /\ Len(delays) = 3

\* C3: when every attempt fails at transport level, the call is re-attempted
\* without waiting until exactly maxRetries attempts have been made, and it
\* is then rejected with the error of the final attempt itself.
C3_TransportFailureExhausts ==
    (maxRetries >= 1 /\ Len(attemptLog) >= 1 /\ AllRejected) =>
        /\ delays = <<>>
        /\ rpc \in {"fetch", "thrown"}
        /\ rpc = "fetch" => (attempts = Len(attemptLog) + 1 /\ attempts <= maxRetries)
        /\ rpc = "thrown" <=> Len(attemptLog) = maxRetries
        /\ rpc = "thrown" => (attempts = maxRetries /\ thrown = TransportError(maxRetries - 1))

C3_Witness ==
    /\ maxRetries = 5
    /\ Len(attemptLog) = 5
    /\ AllRejected
    /\ rpc = "thrown"
    /\ thrown = TransportError(4)

(***************************************************************************)
(* Properties of POST /api/summarize                                       *)
(***************************************************************************)
IsErrorReply(r) == r.body.kind = "error" /\ ~(r.status >= 200 /\ r.status <= 299)

IsSummaryReply(r) == r.body.kind = "summary" /\ r.status >= 200 /\ r.status <= 299

IsEmptyOrMissing(v) == v.t = "undefined" \/ v = JsString(<<>>)

\* C4: a request whose documentText is longer than 400000 characters is
\* answered with a 400-class {error} response and generateContent is never
\* invoked for it; a documentText of exactly 400000 characters passes the
\* guard and goes upstream.
C4_LengthGuard ==
    (hpc # "idle" /\ reqBody.documentText.t = "string") =>
        /\ StrLen(reqBody.documentText.s) > 400000 =>
               /\ hpc = "done"
               /\ upstreamCalls = 0
               /\ Len(responses) = 1
               /\ responses[1].status >= 400 /\ responses[1].status <= 499
               /\ responses[1].body.kind = "error"
        /\ StrLen(reqBody.documentText.s) = 400000 =>
               /\ hpc \in {"upstream", "done"}
               /\ upstreamCalls = 1
               /\ \A k \in 1..Len(responses) : responses[k].status # 400

C4_Witness ==
    /\ reqBody.documentText = JsString(<<Run("a", 400001)>>)
    /\ hpc = "done"
    /\ upstreamCalls = 0
    /\ responses = <<Reply(400, ErrorBody(TooLongMessage))>>

\* C6: a request whose documentText and question are both empty or missing
\* is rejected with an {error} response and generateContent is never
\* invoked for it.
C6_EmptyRequestRejected ==
    (hpc # "idle" /\ IsEmptyOrMissing(reqBody.documentText) /\ IsEmptyOrMissing(reqBody.question)) =>
        /\ upstreamCalls = 0
        /\ hpc \in {"done", "rejected"} => (Len(responses) = 1 /\ IsErrorReply(responses[1]))

\* C8: every request the handler has finished with, whatever its body and
\* whatever the upstream outcome, got exactly one response, which is
\* {summary} with a success status or {error} with a non-2xx status.
C8_ExactlyOneStructuredReply ==
    hpc \in {"done", "rejected"} =>
        /\ Len(responses) = 1
        /\ IsSummaryReply(responses[1]) \/ IsErrorReply(responses[1])

(***************************************************************************)
(* Properties of the App component                                         *)
(***************************************************************************)
IsBlank(str) == \A k \in 1..Len(str) : IsWhiteSpace(str[k].c)

InFlight == BagCardinality(calls)

\* a step of queryDocument's entry: an event that is neither a file selection
\* nor an entry added by another session
QueryDocumentStep == events' = events + 1 /\ extracting' = extracting /\ store' = store

\* C5: when queryDocument runs while the document text and the question are
\* both blank after trimming, it sets the validation error and issues no
\* request, leaving loading and summary as they were; so every request in
\* flight carries a non-blank documentText or a non-blank question.
C5_ValidationRejectsAllEmpty ==
    /\ [](\A call \in BagToSet(calls) : ~(IsBlank(call.documentText) /\ IsBlank(call.question)))
    /\ [][(QueryDocumentStep /\ IsBlank(pdfText) /\ IsBlank(question)) =>
             /\ error' = ValidationMessage
             /\ calls' = calls
             /\ loading' = loading
             /\ summary' = summary]_vars

C5_Witness ==
    /\ events = 1
    /\ pdfText = Lit(<<"\r", "\n">>)
    /\ question = Lit(<<" ">>)
    /\ error = ValidationMessage
    /\ calls = EmptyBag
    /\ ~loading

\* C7: the step that completes a queryDocument call whose request returned
\* a non-empty summary surfaces the summary and sets no error, whatever the
\* history append does.
C7_HistoryFailureNeverFailsQuery ==
    [][(InFlight' < InFlight /\ lastSettled' = "summary") =>
          (summary'.set /\ error' = error)]_vars

\* C9: the suggestion list never holds the same entry twice and never holds
\* an empty or whitespace-only entry.
C9_SuggestionsDistinctNonBlank ==
    \A k \in 1..Len(uniqueQuestions) :
        /\ ~IsBlank(uniqueQuestions[k].s)
        /\ \A j \in 1..Len(uniqueQuestions) : j # k => uniqueQuestions[j] # uniqueQuestions[k]

\* C10: at most one queryDocument request is in flight, and while one is in
\* flight loading stays true (the submit button stays disabled).
C10_SingleQueryInFlight ==
    /\ InFlight <= 1
    /\ InFlight >= 1 => loading

(***************************************************************************)
(* Properties of the prompt composition of POST /api/summarize             *)
(***************************************************************************)
\* the request reached the upstream call: a prompt was composed for it
PromptComposed == hpc \in {"upstream", "done"} /\ upstreamCalls = 1

JsonFormat == Lit(<<"j", "s", "o", "n">>)

IsExtractRequest == reqBody.responseFormat.t = "string" /\ reqBody.responseFormat.s = JsonFormat

\* documentText is a string of at least one character
DocumentNonEmpty == reqBody.documentText.t = "string" /\ StrLen(reqBody.documentText.s) > 0

\* documentText is missing or the empty string
DocumentEmpty == IsEmptyOrMissing(reqBody.documentText)

\* documentText is a string with a character that is not white space
DocumentNonBlank == reqBody.documentText.t = "string" /\ ~IsBlank(reqBody.documentText.s)

\* documentText is falsy, or a string of white space only
DocumentBlank ==
    \/ ~Truthy(reqBody.documentText)
    \/ reqBody.documentText.t = "string" /\ IsBlank(reqBody.documentText.s)

\* C11 (as claimed): the composed prompt follows the mode/content table
\* keyed on documentText being non-empty: EXTRACT gives the extraction
\* instruction with the JSON output directive; QA with non-empty
\* documentText gives the document-grounded instruction without directive;
\* QA with empty documentText gives the general-assistant instruction
\* without directive.
C11_PromptFollowsTable ==
    PromptComposed =>
        /\ IsExtractRequest =>
               (systemPrompt = ExtractionInstruction /\ generationConfig = "application/json")
        /\ (~IsExtractRequest /\ DocumentNonEmpty) =>
               (systemPrompt = GroundedInstruction /\ generationConfig = "")
        /\ (~IsExtractRequest /\ DocumentEmpty) =>
               (systemPrompt = GeneralInstruction /\ generationConfig = "")

\* C11 (amended): whenever the handler composes a prompt, the prompt is
\* determined by the request alone, by the table keyed on documentText
\* being non-blank after trimming: EXTRACT gives the extraction instruction
\* with the JSON output directive whatever documentText is; QA with a
\* documentText that holds a non-white-space character gives the
\* document-grounded instruction without directive; QA with a missing,
\* falsy, empty or white-space-only documentText gives the general-assistant
\* instruction without directive; the upstream outcome changes none of it.
C11_PromptFollowsTrimmedTable ==
    PromptComposed =>
        /\ IsExtractRequest \/ DocumentNonBlank \/ DocumentBlank
        /\ IsExtractRequest =>
               (systemPrompt = ExtractionInstruction /\ generationConfig = "application/json")
        /\ (~IsExtractRequest /\ DocumentNonBlank) =>
               (systemPrompt = GroundedInstruction /\ generationConfig = "")
        /\ (~IsExtractRequest /\ DocumentBlank) =>
               (systemPrompt = GeneralInstruction /\ generationConfig = "")

C11_Witness ==
    /\ hpc = "done"
    /\ reqBody.documentText = JsString(Lit(<<" ">>))
    /\ reqBody.responseFormat = JsString(Lit(<<"t", "e", "x", "t">>))
    /\ systemPrompt = GeneralInstruction
    /\ generationConfig = ""
    /\ Len(responses) = 1

\* the text sent as the user message: the template literal, filled in
userMessage == ConcatAll(userQuery)

\* p is a prefix of s
RECURSIVE StartsWith(_, _)
StartsWith(s, p) ==
    IF p = <<>> THEN TRUE
    ELSE IF s = <<>> THEN FALSE
    ELSE IF Head(s).c # Head(p).c THEN FALSE
    ELSE IF Len(p) = 1 THEN Head(p).n <= Head(s).n
    ELSE Head(p).n = Head(s).n /\ StartsWith(Tail(s), Tail(p))

\* p occurs in s with its first character in run k of s
OccursAt(s, k, p) ==
    /\ s[k].c = p[1].c
    /\ IF Len(p) = 1 THEN p[1].n <= s[k].n
       ELSE p[1].n <= s[k].n /\ StartsWith(SubSeq(s, k + 1, Len(s)), Tail(p))

\* p (not empty) is a substring of s
Contains(s, p) == \E k \in 1..Len(s) : OccursAt(s, k, p)

\* the opening delimiter of the document block
DocumentDelimiter == Lit(<<"D", "O", "C", "U", "M", "E", "N", "T", " ", "C", "O", "N", "T", "E", "N", "T", ":">>)

QuestionLabels ==
    {Lit(<<"U", "S", "E", "R", " ", "Q", "U", "E", "S", "T", "I", "O", "N", ":">>),
     Lit(<<"C", "o", "n", "t", "e", "x", "t", "/", "F", "o", "c", "u", "s", " ", "A", "r", "e", "a">>)}

HasDocumentBlock == Contains(userMessage, DocumentDelimiter)

HasQuestionPart == \E label \in QuestionLabels : Contains(userMessage, label)

\* a question is supplied: a string of at least one character
QuestionSupplied == reqBody.question.t = "string" /\ StrLen(reqBody.question.s) > 0

OnlyUserQuestion ==
    Concat(Lit(<<"U", "S", "E", "R", " ", "Q", "U", "E", "S", "T", "I", "O", "N", ":", " ">>),
           reqBody.question.s)

\* C12: in every composed user message the document delimiter block is
\* present exactly when documentText is non-empty and the question part is
\* present exactly when a question is supplied; a QA request with empty
\* documentText and question q gives exactly 'USER QUESTION: q'.
C12_UserMessageParts ==
    PromptComposed =>
        /\ HasDocumentBlock <=> DocumentNonEmpty
        /\ HasQuestionPart <=> QuestionSupplied
        /\ (~IsExtractRequest /\ DocumentEmpty /\ QuestionSupplied) =>
               userMessage = OnlyUserQuestion

(***************************************************************************)
(* Properties of extractTextFromPDF                                        *)
(***************************************************************************)
Numerals == <<Lit(<<"1">>), Lit(<<"2">>), Lit(<<"3">>), Lit(<<"4">>), Lit(<<"5">>), Lit(<<"6">>)>>

MarkerOpener == Lit(<<"\n", "-", "-", "-", " ", "P", "a", "g", "e", " ">>)

\* the marker of page k: a line '--- Page k ---'
NumberedMarker(k) == Concat(MarkerOpener, Concat(Numerals[k], Lit(<<" ", "-", "-", "-", "\n">>)))

\* the number of page markers in a text
MarkerCount(text) == Cardinality({k \in 1..Len(text) : OccursAt(text, k, MarkerOpener)})

\* the items of a page joined with single spaces
RECURSIVE PageText(_)
PageText(items) ==
    IF items = <<>> THEN <<>>
    ELSE IF Len(items) = 1 THEN items[1]
    ELSE Concat(PageText(SubSeq(items, 1, Len(items) - 1)),
                Concat(<<Run(" ", 1)>>, items[Len(items)]))

\* markers 1..n in ascending order, each followed by the text of its page
RECURSIVE Assembled(_, _)
Assembled(pages, n) ==
    IF n = 0 THEN <<>>
    ELSE Concat(Assembled(pages, n - 1), Concat(NumberedMarker(n), PageText(pages[n])))

\* C13: the text extractTextFromPDF returns for a document of N pages is
\* marker 1, text of page 1, ..., marker N, text of page N, in this order,
\* and holds exactly N page markers (page texts not spelling a marker line
\* themselves), also when pages are empty; at every await inside the loop
\* the text assembled so far is that of the pages before the current one.
C13_PagesInOrder ==
    /\ xpc = "returned" =>
           /\ fullText = Assembled(pdf, Len(pdf))
           /\ MarkerCount(fullText) = Len(pdf)
           /\ \A k \in 1..Len(pdf) : Contains(fullText, NumberedMarker(k))
    /\ xpc \in {"getPage", "getTextContent"} =>
           /\ pageIndex \in 1..Len(pdf)
           /\ fullText = Assembled(pdf, pageIndex - 1)
           /\ MarkerCount(fullText) = pageIndex - 1

C13_Witness ==
    /\ xpc = "returned"
    /\ Len(pdf) = 3
    /\ pdf[1] = <<Lit(<<"a">>), Lit(<<"b", " ", "c">>)>>
    /\ pdf[2] = <<>>
    /\ pdf[3] = <<Lit(<<"a">>)>>
    /\ MarkerCount(fullText) = 3

(***************************************************************************)
(* Properties of the history append                                        *)
(***************************************************************************)
\* an identity and the store are available
IdentityAvailable == db /\ userId # ""

\* a step that completes a queryDocument call
QueryCompletes == InFlight' = InFlight - 1

\* C14: the step that completes a queryDocument call invokes the history
\* append exactly once when the call ends with a summary while an identity
\* and the store are available, and never when the call fails; without an
\* identity nothing is appended, the history and the suggestion list are
\* empty, and a call that ends with a summary sets no error.
C14_HistoryAppendedOnSuccess ==
    /\ [](~IdentityAvailable => (history = <<>> /\ uniqueQuestions = <<>>))
    /\ [][QueryCompletes =>
             /\ (lastSettled' = "summary" /\ IdentityAvailable) =>
                    addDocCalls' = addDocCalls + 1
             /\ lastSettled' = "failure" => (addDocCalls' = addDocCalls /\ store' = store)
             /\ ~IdentityAvailable =>
                    /\ addDocCalls' = addDocCalls /\ store' = store
                    /\ lastSettled' = "summary" => (summary'.set /\ error' = error)]_vars

(***************************************************************************)
(* Properties of the backoff and of the attempt budget of fetchWithRetry   *)
(***************************************************************************)
\* the positions in attemptLog of the attempts answered with 429, in order
RateLimitedAttempts ==
    SelectSeq([j \in 1..Len(attemptLog) |-> j], LAMBDA j : attemptLog[j] = HttpResponse(429))

\* C15: the k-th wait of a call follows its k-th rate-limited attempt, and
\* with a the index (from 0) of that attempt the wait is at least 2^a*1000
\* and at most 2^a*1000 + 1000 ms; the waits of a call never decrease.
C15_BackoffBounds ==
    /\ Len(delays) <= Len(RateLimitedAttempts)
    /\ \A k \in 1..Len(delays) :
           LET a == RateLimitedAttempts[k] - 1 IN
           /\ delays[k] >= (2 ^ a) * 1000
           /\ delays[k] <= (2 ^ a) * 1000 + 1000
    /\ \A k \in 1..(Len(delays) - 1) : delays[k] <= delays[k + 1]

C15_Witness ==
    /\ maxRetries = 5
    /\ attemptLog = <<HttpResponse(429), HttpResponse(500), HttpResponse(429), HttpResponse(429)>>
    /\ delays = <<1999, 4000, 8999>>
    /\ rpc = "delay"

\* call c has been made
Started(c) == invocation[c].pc # "idle"

\* call c has returned or thrown
Ended(c) == invocation[c].pc \in {"returned", "thrown"}

\* call c, made with maxRetries >= 1: at most maxRetries fetches, of which it
\* keeps count in its own i; at most maxRetries - 1 waits; and what it
\* returns is the response of its last attempt, with a 2xx status
WithinBudget(c) ==
    LET l == invocation[c] IN
    l.maxRetries >= 1 =>
        /\ l.attempts <= l.maxRetries
        /\ l.waits <= l.maxRetries - 1
        /\ Started(c) => l.attempts = l.i + 1
        /\ l.pc = "returned" =>
               /\ l.returned.t = "response"
               /\ l.returned.status >= 200 /\ l.returned.status <= 299
               /\ l.returned = l.response

\* a step of one call leaves the locals and the counts of every other call
\* as they are
OthersUntouched ==
    \A c \in CallIds :
        invocation'[c] # invocation[c] =>
            \A d \in CallIds \ {c} : invocation'[d] = invocation[d]

\* every response.text() call c awaits settles
BodyReadsComplete(c) == (invocation[c].pc = "text") ~> (invocation[c].pc # "text")

\* C16 as worded: of fetchWithRetry calls in progress together, each made with
\* maxRetries >= 1 makes at most maxRetries attempts and maxRetries - 1 waits
\* whatever its attempts' outcomes, returns only a 2xx response, and is not
\* affected by the steps of the others; and a call that has been made returns
\* or throws, provided every fetch and every timer completes.
C16_EndsWhenFetchesAndTimersComplete ==
    /\ [](\A c \in CallIds : WithinBudget(c))
    /\ [][OthersUntouched]_vars
    /\ \A c \in CallIds : Started(c) ~> Ended(c)

\* C16: of fetchWithRetry calls in progress together, each made with
\* maxRetries >= 1 makes at most maxRetries attempts and maxRetries - 1 waits
\* whatever its attempts' outcomes, returns only a 2xx response, and is not
\* affected by the steps of the others; and a call that has been made returns
\* or throws, provided every fetch, every timer and every body read
\* (response.text() of a non-success response) it awaits completes.
C16_BoundedAttempts ==
    /\ [](\A c \in CallIds : WithinBudget(c))
    /\ [][OthersUntouched]_vars
    /\ \A c \in CallIds : BodyReadsComplete(c) => (Started(c) ~> Ended(c))

\* one call used up its three attempts (429 and a wait, a transport failure,
\* 429 on the last attempt, thrown after the body read) while another, made
\* with maxRetries = 1, returned the 200 of its only attempt
C16_Witness ==
    /\ invocation[1] = [pc |-> "thrown", maxRetries |-> 3, i |-> 2,
                        response |-> HttpResponse(429), returned |-> NoResponse,
                        attempts |-> 3, waits |-> 1]
    /\ invocation[2] = [pc |-> "returned", maxRetries |-> 1, i |-> 0,
                        response |-> HttpResponse(200), returned |-> HttpResponse(200),
                        attempts |-> 1, waits |-> 0]

(***************************************************************************)
(* Properties of handleFileChange and of the completion of queryDocument   *)
(***************************************************************************)
\* a step that issues a queryDocument request
RequestIssued == InFlight' = InFlight + 1

\* a step that completes a handleFileChange call
ExtractionCompletes == Len(extracting') = Len(extracting) - 1

ExtractedTexts == {extractTextFromPDF(extracting[k]) : k \in 1..Len(extracting)}

\* C17: the placeholder handleFileChange shows while an extraction runs is
\* never the documentText of a request that queryDocument issues; and the
\* step that completes handleFileChange leaves the document text either
\* the extracted text, or empty with the scanned-PDF error set.
C17_PlaceholderNeverSent ==
    [][/\ RequestIssued => pdfText # ExtractingPlaceholder
       /\ ExtractionCompletes =>
              \/ pdfText' \in ExtractedTexts
              \/ pdfText' = <<>> /\ error' = ExtractionFailedMessage]_vars

ErrorSet == error # NoErrorMessage

\* the only queryDocument call is outstanding and nothing has touched
\* loading, summary or error since it issued its request
UndisturbedCall == InFlight = 1 /\ loading /\ ~summary.set /\ ~ErrorSet

\* C18: the step that issues a request leaves loading true and summary and
\* error cleared; the step that completes an undisturbed call, whatever the
\* outcome of its request, leaves loading false and exactly one of summary
\* and error set.
C18_ExactlyOneOfSummaryAndError ==
    [][/\ RequestIssued => (loading' /\ ~summary'.set /\ ~ErrorSet')
       /\ (QueryCompletes /\ UndisturbedCall) =>
              /\ ~loading'
              /\ summary'.set # ErrorSet']_vars
====
